---- MODULE Spec2Model ----
(***************************************************************************)
(* A model of check_card_gui.py: the per-device workflow supervisor        *)
(* (WorkflowRunTask), the inventory reconciler (MainWindow._on_finished of *)
(* the polling process) and the registry of runs kept by MainWindow.       *)
(*                                                                         *)
(* Everything runs on the Qt event loop: one handler at a time, and a      *)
(* signal calls its slots before emit() returns.  A handler is therefore   *)
(* one atomic step.  Handlers are written as operators from a "world" (the *)
(* mutable fields of MainWindow and of every WorkflowRunTask) to the world *)
(* after the call, so that a handler that calls another handler, or emits  *)
(* a signal, is the composition of the operators.                          *)
(*                                                                         *)
(* Text is a sequence of tokens.  A token is a digit, a newline "NL", or a *)
(* piece of text no regular expression of the program looks inside:        *)
(*   "M"  the literal FLASH_IMAGE_SIZE_BYTES=                              *)
(*   "B"  white space followed by the word bytes                           *)
(*   "T"  the word transferred                                             *)
(*   "UP" the run-link prefix https://github.com/<owner>/<repo>            *)
(*   "R1", "R2"  /actions/runs/<id> for two different runs                 *)
(*   "x"  any other text without a newline                                 *)
(* The widgets (list items, status and auth-output dialogs, status line,   *)
(* message boxes) are not part of the model.                               *)
(***************************************************************************)
EXTENDS Integers, Sequences, FiniteSets, TLC

\* ------------------------------------------------------------------ bounds

\* lines of an options text
MaxLines == 6

\* WorkflowOptionsDialog windows open at the same time
MaxDialogs == 2
\* read errors one child process reports while it runs
MaxReadErrors == 1

\* ------------------------------------------------------------- small helpers

\* Optional[...]: None, or a one-element tuple holding the value
None == <<>>
Some(v) == <<v>>

Min2(a, b) == IF a < b THEN a ELSE b
Max2(a, b) == IF a > b THEN a ELSE b
SetMax(S) == CHOOSE m \in S : \A n \in S : n <= m
SetMin(S) == CHOOSE m \in S : \A n \in S : m <= n
Range(s) == {s[i] : i \in 1..Len(s)}

\* dict[key] = value, and dict.pop(key, None), on a dict kept as a function
Put(d, k, v) == [x \in (DOMAIN d) \cup {k} |-> IF x = k THEN v ELSE d[x]]
Pop(d, k) == [x \in (DOMAIN d) \ {k} |-> d[x]]
EmptyDict == [x \in {} |-> 0]

\* ------------------------------------------------------------- text and regex

Digit == {"0", "1", "2", "3", "4", "5", "6", "7", "8", "9"}
IsDigit(c) == c \in Digit
DigitVal(c) ==
    CASE c = "0" -> 0 [] c = "1" -> 1 [] c = "2" -> 2 [] c = "3" -> 3
      [] c = "4" -> 4 [] c = "5" -> 5 [] c = "6" -> 6 [] c = "7" -> 7
      [] c = "8" -> 8 [] c = "9" -> 9

\* int(<digits>)
RECURSIVE IntOf(_)
IntOf(ds) ==
    IF ds = <<>> THEN 0
    ELSE 10 * IntOf(SubSeq(ds, 1, Len(ds) - 1)) + DigitVal(ds[Len(ds)])

\* the index just after the longest run of digits of text that starts at i: (\d+)
RECURSIVE DigitsEnd(_, _)
DigitsEnd(text, i) ==
    IF i <= Len(text) /\ IsDigit(text[i]) THEN DigitsEnd(text, i + 1) ELSE i

\* the index of the first token at or after i that \s does not match
RECURSIVE SkipSpace(_, _)
SkipSpace(text, i) ==
    IF i <= Len(text) /\ text[i] = "NL" THEN SkipSpace(text, i + 1) ELSE i

\* re.search(r"FLASH_IMAGE_SIZE_BYTES=(\d+)", text): int(group(1)) of the first match
SizeMatchAt(text, i) == text[i] = "M" /\ i < Len(text) /\ IsDigit(text[i + 1])
SizeSearch(text) ==
    LET hits == {i \in 1..Len(text) : SizeMatchAt(text, i)}
    IN  IF hits = {} THEN None
        ELSE LET i == SetMin(hits)
             IN  Some(IntOf(SubSeq(text, i + 1, DigitsEnd(text, i + 1) - 1)))

\* a match of (?:^|[\r\n])\s*(\d+)\s+bytes\b[^\r\n]*\btransferred\b whose group
\* starts at p
TransferMatchAt(text, p) ==
    /\ IsDigit(text[p])
    /\ p = 1 \/ text[p - 1] = "NL"
    /\ LET b == SkipSpace(text, DigitsEnd(text, p))
       IN  /\ b <= Len(text)
           /\ text[b] = "B"
           /\ \E s \in (b + 1)..Len(text) :
                 /\ text[s] = "T"
                 /\ \A j \in (b + 1)..(s - 1) : text[j] # "NL"

\* the first match of findall in place of the last
LastTransfer_first(text) ==
    LET ps == {p \in 1..Len(text) : TransferMatchAt(text, p)}
    IN  IF ps = {} THEN None
        ELSE LET p == SetMin(ps)
             IN  Some(IntOf(SubSeq(text, p, DigitsEnd(text, p) - 1)))

\* re.findall(...)[-1] as an int, None when findall returns no match
LastTransfer(text) ==
    LET ps == {p \in 1..Len(text) : TransferMatchAt(text, p)}
    IN  IF ps = {} THEN None
        ELSE LET p == SetMax(ps)
             IN  Some(IntOf(SubSeq(text, p, DigitsEnd(text, p) - 1)))

\* str.splitlines()
RECURSIVE SplitLines(_)
SplitLines(text) ==
    IF text = <<>> THEN <<>>
    ELSE LET nls == {i \in 1..Len(text) : text[i] = "NL"}
         IN  IF nls = {} THEN <<text>>
             ELSE LET i == SetMin(nls)
                  IN  <<SubSeq(text, 1, i - 1)>> \o SplitLines(SubSeq(text, i + 1, Len(text)))

\* line.startswith("https://github.com/") and "/actions/runs/" in line
IsRunLink(line) ==
    /\ line # <<>>
    /\ line[1] = "UP"
    /\ \E i \in 1..Len(line) : line[i] \in {"R1", "R2"}

\* the value of run_url after the loop of _read_stdout over the lines of a chunk
RECURSIVE ScanRunUrl(_, _)
ScanRunUrl(lines, run_url) ==
    IF lines = <<>> THEN run_url
    ELSE ScanRunUrl(Tail(lines), IF IsRunLink(lines[1]) THEN lines[1] ELSE run_url)

\* --------------------------------------------------------------------- state

VARIABLES
    tasks,              \* the WorkflowRunTask objects, by identity
    device_states,      \* MainWindow._device_states
    device_progress,    \* MainWindow._device_progress
    workflow_runs,      \* MainWindow._workflow_runs: device key -> identity of a task
    workflow_history,   \* MainWindow._workflow_history: device key -> identity of the
                        \* task whose info it holds
    last_devices,       \* MainWindow._last_devices
    last_device_rows,   \* MainWindow._last_device_rows
    dialogs,            \* MainWindow._dialogs: open options dialogs per device key
    process,            \* state of MainWindow.process, the inventory poll
    lastOp,             \* the handler that ran last, with its arguments
    parser,             \* the locals of a call of parse_workflow_options_yaml
    auth                \* the startup authentication session of MainWindow

vars == <<tasks, device_states, device_progress, workflow_runs, workflow_history,
          last_devices, last_device_rows, dialogs, process, lastOp, parser, auth>>

\* the device keys the inventory script can list, in the order sorted() gives them
DeviceOrder == <<"a", "b">>
Devices == Range(DeviceOrder)

\* the form values a WorkflowOptionsDialog can hand to start_requested
Inputs == {[image |-> ""], [image |-> "v1"]}

\* WorkflowRunInfo(device_path) and WorkflowRunTask.__init__.  The fields of
\* task.info are kept beside the fields of the task: an info belongs to one task.
\* out_pending and err_pending are what the child process has yet to write;
\* state_events and progress_events are the arguments of every state_changed and
\* progress_changed emitted so far; line_chunks says that every chunk read so far
\* was one complete line; read_errors counts the read errors of the child.
NewTask(device_path, inputs) ==
    [device_path |-> device_path,
     state |-> "running",
     run_url |-> <<>>,
     stdout |-> <<>>,
     stderr |-> <<>>,
     exit_code |-> None,
     inputs |-> inputs,
     pending_workflow_args |-> None,
     auth_process |-> "NotRunning",
     flash_total_bytes |-> None,
     last_progress_percent |-> -1,
     process |-> "NotRunning",
     kill_requested |-> FALSE,
     read_errors |-> 0,
     out_pending |-> <<>>,
     err_pending |-> <<>>,
     state_events |-> <<>>,
     progress_events |-> <<>>,
     line_chunks |-> TRUE]

\* The identity of a WorkflowRunTask object: the device key it was made for and
\* a number no task in existence for that key has.  tasks holds the tasks that
\* can still act or be looked at: those a dict of MainWindow refers to and those
\* whose process has not ended.  A task that is neither is left out: its
\* QProcess emits no more signals and nothing reads its fields again.
TaskId(w, device_path) ==
    <<device_path,
      SetMin({n \in 1..(Cardinality(DOMAIN w.tasks) + 1) :
                 <<device_path, n>> \notin DOMAIN w.tasks})>>

Live(w, t) ==
    \/ \E k \in DOMAIN w.workflow_runs : w.workflow_runs[k] = t
    \/ \E k \in DOMAIN w.workflow_history : w.workflow_history[k] = t
    \/ w.tasks[t].process # "NotRunning"

\* the fields the handlers read and write
World ==
    [tasks |-> tasks,
     device_states |-> device_states,
     device_progress |-> device_progress,
     workflow_runs |-> workflow_runs,
     workflow_history |-> workflow_history,
     last_devices |-> last_devices,
     last_device_rows |-> last_device_rows]

Commit(w) ==
    /\ tasks' = [t \in {u \in DOMAIN w.tasks : Live(w, u)} |-> w.tasks[t]]
    /\ device_states' = w.device_states
    /\ device_progress' = w.device_progress
    /\ workflow_runs' = w.workflow_runs
    /\ workflow_history' = w.workflow_history
    /\ last_devices' = w.last_devices
    /\ last_device_rows' = w.last_device_rows

\* ----------------------------------------------------------- MainWindow slots

_on_workflow_state_changed(w, device_path, state) ==
    LET w1 == [w EXCEPT !.device_states = Put(@, device_path, state)]
    IN  IF state = "done"
        THEN [w1 EXCEPT !.device_progress = Put(@, device_path, 100)]
        ELSE w1

_on_workflow_progress_changed(w, device_path, percent) ==
    [w EXCEPT !.device_progress = Put(@, device_path, Max2(0, Min2(100, percent)))]

_on_workflow_output_changed(w, device_path) ==
    IF device_path \in DOMAIN w.workflow_runs
    THEN [w EXCEPT !.workflow_history = Put(@, device_path, w.workflow_runs[device_path])]
    ELSE w

_on_workflow_task_finished(w, device_path) ==
    IF device_path \in DOMAIN w.workflow_runs
    THEN [w EXCEPT !.workflow_history = Put(@, device_path, w.workflow_runs[device_path])]
    ELSE w

\* ------------------------------------------------------ WorkflowRunTask signals

\* a signal that names device a whatever the task is
state_changed_fixed_key(w, t, state) ==
    _on_workflow_state_changed(
        [w EXCEPT !.tasks[t].state_events = Append(@, state)], "a", state)

\* state_changed.emit(device_path, state): connected to _on_workflow_state_changed
state_changed(w, t, state) ==
    _on_workflow_state_changed(
        [w EXCEPT !.tasks[t].state_events = Append(@, state)],
        w.tasks[t].device_path, state)

\* progress_changed.emit(device_path, percent)
progress_changed(w, t, percent) ==
    _on_workflow_progress_changed(
        [w EXCEPT !.tasks[t].progress_events = Append(@, percent)],
        w.tasks[t].device_path, percent)

\* output_changed.emit(device_path)
output_changed(w, t) == _on_workflow_output_changed(w, w.tasks[t].device_path)

\* finished_for_device.emit(device_path)
finished_for_device(w, t) == _on_workflow_task_finished(w, w.tasks[t].device_path)

\* ----------------------------------------------------- WorkflowRunTask methods

\* int(transferred * 100 / total) clamped to 0..100
Percent(transferred, total) == Max2(0, Min2(100, (transferred * 100) \div total))

_update_flash_progress(w, t) ==
    LET combined == w.tasks[t].stdout \o <<"NL">> \o w.tasks[t].stderr
        size_match == SizeSearch(combined)
        w1 == IF w.tasks[t].flash_total_bytes = None /\ size_match # None
              THEN LET wa == [w EXCEPT !.tasks[t].flash_total_bytes = size_match]
                   IN  IF wa.tasks[t].last_progress_percent < 0
                       THEN progress_changed(
                                [wa EXCEPT !.tasks[t].last_progress_percent = 0], t, 0)
                       ELSE wa
              ELSE w
        total == w1.tasks[t].flash_total_bytes
        dd_last == LastTransfer(combined)
    IN  IF total = None \/ total = Some(0) THEN w1
        ELSE IF dd_last = None THEN w1
        ELSE LET percent == Percent(dd_last[1], total[1])
             IN  IF percent # w1.tasks[t].last_progress_percent
                 THEN progress_changed(
                          [w1 EXCEPT !.tasks[t].last_progress_percent = percent], t, percent)
                 ELSE w1

\* whether a chunk is exactly one line with its newline
OneLine(chunk) ==
    /\ chunk # <<>>
    /\ chunk[Len(chunk)] = "NL"
    /\ \A i \in 1..(Len(chunk) - 1) : chunk[i] # "NL"

\* chunk is what readAllStandardOutput() returns
_read_stdout(w, t, chunk) ==
    IF chunk = <<>> THEN w
    ELSE LET w1 == [w EXCEPT !.tasks[t].stdout = @ \o chunk,
                             !.tasks[t].line_chunks = @ /\ OneLine(chunk),
                             !.tasks[t].run_url = ScanRunUrl(SplitLines(chunk), @)]
         IN  output_changed(_update_flash_progress(w1, t), t)

\* chunk is what readAllStandardError() returns
_read_stderr(w, t, chunk) ==
    IF chunk = <<>> THEN w
    ELSE LET w1 == [w EXCEPT !.tasks[t].stderr = @ \o chunk,
                             !.tasks[t].line_chunks = @ /\ OneLine(chunk)]
         IN  output_changed(_update_flash_progress(w1, t), t)

\* a finished handler that leaves the progress where the output left it
WorkflowRunTask_on_finished_as_read(w, t, exit_code, out_chunk, err_chunk) ==
    LET w1 == _read_stderr(_read_stdout(w, t, out_chunk), t, err_chunk)
        w2 == [w1 EXCEPT !.tasks[t].exit_code = Some(exit_code),
                         !.tasks[t].state = IF exit_code = 0 THEN "done" ELSE "failed"]
        w4 == state_changed(w2, t, w2.tasks[t].state)
    IN  output_changed(finished_for_device(w4, t), t)

WorkflowRunTask_on_finished(w, t, exit_code, out_chunk, err_chunk) ==
    LET w1 == _read_stderr(_read_stdout(w, t, out_chunk), t, err_chunk)
        w2 == [w1 EXCEPT !.tasks[t].exit_code = Some(exit_code),
                         !.tasks[t].state = IF exit_code = 0 THEN "done" ELSE "failed"]
        w3 == IF exit_code = 0 /\ w2.tasks[t].last_progress_percent # 100
              THEN progress_changed(
                       [w2 EXCEPT !.tasks[t].last_progress_percent = 100], t, 100)
              ELSE w2
        w4 == state_changed(w3, t, w3.tasks[t].state)
    IN  output_changed(finished_for_device(w4, t), t)

\* an error handler that sets the state and tells no one
WorkflowRunTask_on_error_silent(w, t, out_chunk, err_chunk) ==
    LET w1 == _read_stderr(_read_stdout(w, t, out_chunk), t, err_chunk)
    IN  output_changed([w1 EXCEPT !.tasks[t].state = "failed"], t)

WorkflowRunTask_on_error(w, t, out_chunk, err_chunk) ==
    LET w1 == _read_stderr(_read_stdout(w, t, out_chunk), t, err_chunk)
        w2 == [w1 EXCEPT !.tasks[t].state = "failed"]
    IN  output_changed(state_changed(w2, t, "failed"), t)

\* launch is what QProcess.start does: "ok" leaves the process Starting, with
\* prog the output the child is going to write; "failed" reports FailedToStart
\* from inside start()
_start_workflow_process(w, t, launch, prog) ==
    IF w.tasks[t].pending_workflow_args = None THEN w
    ELSE IF launch = "ok"
         THEN [w EXCEPT !.tasks[t].process = "Starting",
                        !.tasks[t].out_pending = prog.out,
                        !.tasks[t].err_pending = prog.err]
         ELSE WorkflowRunTask_on_error(w, t, <<>>, <<>>)

\* the argument list of the workflow script, each argument a tuple of its pieces
WorkflowArgs(device_path, inputs) ==
    <<<<"WORKFLOW_SCRIPT_PATH">>, <<"--run-custom">>, <<"--device-path">>, <<device_path>>>>
    \o (IF inputs.image = "" THEN <<>>
        ELSE <<<<"--input">>, <<"image", "=", inputs.image>>>>)

\* a start that reports the absent script and goes on to launch the process
WorkflowRunTask_start_no_return(w, t, script_exists, launch, prog) ==
    LET w0 == IF script_exists THEN w
              ELSE LET wa == [w EXCEPT !.tasks[t].stderr = @ \o <<"x", "NL">>,
                                       !.tasks[t].state = "failed"]
                   IN  finished_for_device(
                           output_changed(state_changed(wa, t, "failed"), t), t)
        w1 == [w0 EXCEPT !.tasks[t].pending_workflow_args =
                   Some(WorkflowArgs(w.tasks[t].device_path, w.tasks[t].inputs))]
    IN  _start_workflow_process(state_changed(w1, t, "running"), t, launch, prog)

\* script_exists is WORKFLOW_SCRIPT_PATH.exists()
WorkflowRunTask_start(w, t, script_exists, launch, prog) ==
    IF ~script_exists
    THEN LET w1 == [w EXCEPT !.tasks[t].stderr = @ \o <<"x", "NL">>,
                             !.tasks[t].state = "failed"]
         IN  finished_for_device(output_changed(state_changed(w1, t, "failed"), t), t)
    ELSE LET w1 == [w EXCEPT !.tasks[t].pending_workflow_args =
                        Some(WorkflowArgs(w.tasks[t].device_path, w.tasks[t].inputs))]
         IN  _start_workflow_process(state_changed(w1, t, "running"), t, launch, prog)

\* ------------------------------------------------------- MainWindow handlers

\* a test that looks at the auth process only
Active_auth_only(task) == task.auth_process # "NotRunning"

\* a test that takes the startup authentication process for the task's own
Active_or_startup(task) ==
    auth.process # "NotRunning" \/ task.process # "NotRunning"

\* the test of lines 716-719 and 788-791 on one task
Active(task) == task.auth_process # "NotRunning" \/ task.process # "NotRunning"

\* x or []
OrEmpty(opt) == IF opt = None THEN <<>> ELSE opt[1]

\* sorted(S) for a set of device keys
Sorted(S) == SelectSeq(DeviceOrder, LAMBDA d : d \in S)

\* A line of the listing is the sequence of its tab-separated fields, each field
\* already stripped ("" is a field of white space only).  str.strip() of the line
\* removes the empty fields, and the tabs, at both of its ends.
RECURSIVE StripLeft(_)
StripLeft(line) ==
    IF line # <<>> /\ line[1] = "" THEN StripLeft(Tail(line)) ELSE line
RECURSIVE StripRight(_)
StripRight(line) ==
    IF line # <<>> /\ line[Len(line)] = ""
    THEN StripRight(SubSeq(line, 1, Len(line) - 1))
    ELSE line
StripLine(line) == StripRight(StripLeft(line))

\* lines 690-701: the rows of the listing
RECURSIVE ParseRows(_)
ParseRows(lines) ==
    IF lines = <<>> THEN <<>>
    ELSE LET parts == StripLine(lines[1])
             dev == IF parts # <<>> THEN parts[1] ELSE ""
             size == IF Len(parts) > 1 THEN parts[2] ELSE ""
             manufacturer == IF Len(parts) > 2 THEN parts[3] ELSE ""
         IN  (IF parts = <<>> \/ dev = "" THEN <<>>
              ELSE <<(<<dev, size, manufacturer>>)>>)
             \o ParseRows(Tail(lines))

KeysOf(rows) == [i \in 1..Len(rows) |-> rows[i][1]]

\* previous_rows_map.get(dev, (dev, "", ""))
PreviousRow(rows, dev) ==
    LET at == {i \in 1..Len(rows) : rows[i][1] = dev}
    IN  IF at = {} THEN <<dev, "", "">> ELSE rows[SetMax(at)]

\* a reconciler that retains no device
RetainedMissing_never(w, dev) == FALSE

\* a reconciler that retains every device with a registered task, active or not
RetainedMissing_registered(w, dev) == dev \in DOMAIN w.workflow_runs

\* a reconciler that retains a device only once its process is Running
RetainedMissing_running_only(w, dev) ==
    /\ dev \in DOMAIN w.workflow_runs
    /\ w.tasks[w.workflow_runs[dev]].process = "Running"

\* lines 714-720: whether the reconciler retains a removed device
RetainedMissing(w, dev) ==
    /\ dev \in DOMAIN w.workflow_runs
    /\ Active(w.tasks[w.workflow_runs[dev]])

\* a loop that puts no retained row back
AppendRetained_none(device_rows, retained, previous_rows) == device_rows

\* lines 725-730: device_rows after the loop over retained_missing_devices
RECURSIVE AppendRetained(_, _, _)
AppendRetained(device_rows, retained, previous_rows) ==
    IF retained = <<>> THEN device_rows
    ELSE LET row == PreviousRow(previous_rows, retained[1])
         IN  AppendRetained(
                 IF row[1] \notin Range(KeysOf(device_rows))
                 THEN Append(device_rows, row) ELSE device_rows,
                 Tail(retained), previous_rows)

\* a loop body that leaves the history entry of the device in place
ForgetDevice_keeps_history(w, device_path) ==
    [w EXCEPT !.device_states = Pop(@, device_path),
              !.device_progress = Pop(@, device_path),
              !.workflow_runs = Pop(@, device_path)]

\* the body of the loop of _forget_removed_devices
ForgetDevice(w, device_path) ==
    LET w1 == [w EXCEPT !.device_states = Pop(@, device_path),
                        !.device_progress = Pop(@, device_path),
                        !.workflow_history = Pop(@, device_path),
                        !.workflow_runs = Pop(@, device_path)]
    IN  IF device_path \in DOMAIN w.workflow_runs
        THEN LET t == w.workflow_runs[device_path]
             IN  IF w.tasks[t].process # "NotRunning"
                 THEN [w1 EXCEPT !.tasks[t].kill_requested = TRUE]
                 ELSE w1
        ELSE w1

RECURSIVE ForgetAll(_, _)
ForgetAll(w, removed) ==
    IF removed = <<>> THEN w
    ELSE ForgetAll(ForgetDevice(w, removed[1]), Tail(removed))

\* a forget that releases nothing
_forget_removed_devices_none(w, removed_devices) == w

_forget_removed_devices(w, removed_devices) == ForgetAll(w, Sorted(removed_devices))

\* a finished handler that never looks at the exit code
Rebuilds_any_exit(w, exit_code, listing) ==
    ParseRows(listing) # OrEmpty(w.last_device_rows)

\* lines 682-704: whether the finished handler of the poll gets past both of its
\* early returns, to reassign the accepted rows and keys and to clear and
\* rebuild the list widget
Rebuilds(w, exit_code, listing) ==
    /\ exit_code = 0
    /\ ParseRows(listing) # OrEmpty(w.last_device_rows)

\* the finished handler of the inventory poll; listing is its standard output
MainWindow_on_finished(w, exit_code, listing) ==
    IF ~Rebuilds(w, exit_code, listing) THEN w
    ELSE
        LET device_rows == ParseRows(listing)
            previous_devices == Range(OrEmpty(w.last_devices))
            current_devices == Range(KeysOf(device_rows))
            removed_devices == previous_devices \ current_devices
            retained_missing_devices ==
                SelectSeq(Sorted(removed_devices), LAMBDA dev : RetainedMissing(w, dev))
            removed == removed_devices \ Range(retained_missing_devices)
            rows == AppendRetained(device_rows, retained_missing_devices,
                                   OrEmpty(w.last_device_rows))
            w1 == IF removed # {} THEN _forget_removed_devices(w, removed) ELSE w
        IN  [w1 EXCEPT !.last_devices = Some(KeysOf(rows)),
                       !.last_device_rows = Some(rows)]

\* a start that never finds the device busy
ExistingBusy_never(w, device_path) == FALSE

\* lines 786-793: the start request is for a device whose task is still busy
ExistingBusy(w, device_path) ==
    /\ device_path \in DOMAIN w.workflow_runs
    /\ Active(w.tasks[w.workflow_runs[device_path]])

_start_workflow_for_device(w, device_path, inputs, script_exists, launch, prog) ==
    IF ExistingBusy(w, device_path) THEN w
    ELSE LET t == TaskId(w, device_path)
             w1 == [w EXCEPT !.tasks = Put(@, t, NewTask(device_path, inputs)),
                             !.workflow_runs = Put(@, device_path, t),
                             !.workflow_history = Put(@, device_path, t)]
         IN  WorkflowRunTask_start(w1, t, script_exists, launch, prog)

\* ------------------------------------------- parse_workflow_options_yaml

\* A line of the options text is its indentation, the number of spaces it begins
\* with, and its body, str.strip() of the line.  The body is a sequence of tokens:
\* ":", " ", "-" and "\"" are the characters, "{}" and the words ("inputs", "foo",
\* "true", ...) are pieces of text with none of these characters in them.  No
\* line ends in white space, and no text holds a backslash.
YamlLine(indent, body) == [indent |-> indent, body |-> body]

\* str.strip() on a sequence of tokens
RECURSIVE StripSpaces(_)
StripSpaces(text) ==
    IF text # <<>> /\ text[1] = " " THEN StripSpaces(Tail(text))
    ELSE IF text # <<>> /\ text[Len(text)] = " "
         THEN StripSpaces(SubSeq(text, 1, Len(text) - 1))
         ELSE text

\* text.endswith(c), text[:-1], c in text, and text.split(c, 1) for a one-character c
EndsWith(text, c) == text # <<>> /\ text[Len(text)] = c
ButLast(text) == SubSeq(text, 1, Len(text) - 1)
Contains(text, c) == \E i \in 1..Len(text) : text[i] = c
FirstIndex(text, c) == SetMin({i \in 1..Len(text) : text[i] = c})
SplitKey(text, c) == SubSeq(text, 1, FirstIndex(text, c) - 1)
SplitValue(text, c) == SubSeq(text, FirstIndex(text, c) + 1, Len(text))

\* the values of the parsed mapping: True and False, None, a str, a list
Bool(word) == [kind |-> "bool", text |-> <<word>>, items |-> <<>>]
Null == [kind |-> "null", text |-> <<>>, items |-> <<>>]
Str(text) == [kind |-> "str", text |-> text, items |-> <<>>]
List(items) == [kind |-> "list", text |-> <<>>, items |-> items]

\* a reading that never looks at the quotes
_parse_yaml_scalar_unquoted(value) ==
    LET v == StripSpaces(value)
    IN  IF v = <<>> THEN Str(<<>>)
        ELSE IF v \in {<<"true">>, <<"false">>} THEN Bool(v[1])
        ELSE IF v = <<"null">> THEN Null
        ELSE Str(v)

\* lines 109-120.  json.loads of a text in double quotes with no backslash in it
\* gives the text between the quotes, and where it fails (a quote in between,
\* or the text is one quote) value[1:-1] is that same text
_parse_yaml_scalar(value) ==
    LET v == StripSpaces(value)
    IN  IF v = <<>> THEN Str(<<>>)
        ELSE IF v \in {<<"true">>, <<"false">>} THEN Bool(v[1])
        ELSE IF v = <<"null">> THEN Null
        ELSE IF v[1] = "\"" /\ v[Len(v)] = "\"" THEN Str(SubSeq(v, 2, Len(v) - 1))
        ELSE Str(v)

\* the locals of parse_workflow_options_yaml after the lines read so far.  pc is
\* "loop" inside the for statement, "returned" after return inputs, "raised"
\* after an exception nothing catches, and "idle" while no call is made.  n is the
\* number of lines read, and read is these lines for as long as they begin one of
\* NamedTexts, None after that
ParserIdle ==
    [pc |-> "idle", n |-> 0, read |-> None, inputs |-> EmptyDict, in_inputs |-> FALSE,
     current_input |-> None, current_key |-> None]
ParserStart == [ParserIdle EXCEPT !.pc = "loop", !.read = Some(<<>>)]

\* inputs[current_input][key] = value: a KeyError where inputs has no such field
HasField(p) == p.current_input # None /\ p.current_input[1] \in DOMAIN p.inputs
SetItem(p, key, value) ==
    IF ~HasField(p) THEN [p EXCEPT !.pc = "raised"]
    ELSE [p EXCEPT !.inputs[p.current_input[1]] = Put(@, key, value)]

\* lines 166-170: the list-item line
AppendOption(p, raw_line) ==
    LET item == StripSpaces(SubSeq(raw_line.body, 3, Len(raw_line.body)))
    IN  IF ~HasField(p) THEN [p EXCEPT !.pc = "raised"]
        ELSE LET field == p.current_input[1]
                 p1 == IF <<"options">> \in DOMAIN p.inputs[field] THEN p
                       ELSE [p EXCEPT !.inputs[field] = Put(@, <<"options">>, List(<<>>))]
                 options == p1.inputs[field][<<"options">>]
             IN  IF options.kind # "list" THEN p1
                 ELSE [p1 EXCEPT !.inputs[field][<<"options">>] =
                           List(Append(options.items, _parse_yaml_scalar(item)))]

\* a loop that goes on to the attribute lines with no field open
NoField_never(p) == FALSE

\* lines 150-151: if current_input is None: continue
NoField(p) == p.current_input = None

\* lines 135-170: the body of the for statement for one line
parse_line(p, raw_line) ==
    LET stripped == raw_line.body
        indent == raw_line.indent
    IN  IF stripped = <<>> THEN p
        ELSE IF ~p.in_inputs
        THEN IF stripped = <<"inputs", ":">> THEN [p EXCEPT !.in_inputs = TRUE] ELSE p
        ELSE IF indent >= 2 /\ indent < 4
        THEN IF stripped = <<"{}">> THEN [p EXCEPT !.pc = "returned"]
             ELSE IF EndsWith(stripped, ":")
             THEN [p EXCEPT !.current_input = Some(ButLast(stripped)),
                            !.inputs = Put(@, ButLast(stripped), EmptyDict),
                            !.current_key = None]
             ELSE p
        ELSE IF NoField(p) THEN p
        ELSE IF indent >= 4 /\ EndsWith(stripped, ":")
                /\ ~Contains(ButLast(stripped), ":")
        THEN LET p1 == [p EXCEPT !.current_key = Some(ButLast(stripped))]
             IN  IF ButLast(stripped) = <<"options">>
                 THEN SetItem(p1, <<"options">>, List(<<>>))
                 ELSE p1
        ELSE IF indent >= 4 /\ Contains(stripped, ":")
        THEN [SetItem(p, StripSpaces(SplitKey(stripped, ":")),
                      _parse_yaml_scalar(SplitValue(stripped, ":")))
                EXCEPT !.current_key = None]
        ELSE IF /\ indent = 6 /\ Len(stripped) >= 2
                /\ stripped[1] = "-" /\ stripped[2] = " "
                /\ p.current_key = Some(<<"options">>)
        THEN AppendOption(p, raw_line)
        ELSE p

\* ------------------------------------------- the startup authentication

\* The text gh_auth.sh writes is a sequence of tokens: "P" is Press Enter to
\* open, "SP" a space, "U1" and "U2" are the two halves https://github.com/login/
\* and device of the address, "w" is text of word characters, "." text of other
\* printable characters, "NL" a newline.

\* re.search(r"(https://github\.com/login/device)\b", chunk): the address with
\* no word character after it
HasDeviceUrl(chunk) ==
    \E i \in 1..(Len(chunk) - 1) :
        /\ chunk[i] = "U1" /\ chunk[i + 1] = "U2"
        /\ i + 1 = Len(chunk) \/ chunk[i + 2] \notin {"w", "U1", "U2", "P"}

\* "Press Enter to open https://github.com/login/device" in chunk
HasPressEnter(chunk) ==
    \E i \in 1..(Len(chunk) - 3) :
        /\ chunk[i] = "P" /\ chunk[i + 1] = "SP"
        /\ chunk[i + 2] = "U1" /\ chunk[i + 3] = "U2"

\* str.rstrip(), and bool(str.strip())
RECURSIVE RStrip(_)
RStrip(text) ==
    IF text # <<>> /\ text[Len(text)] \in {"SP", "NL"}
    THEN RStrip(SubSeq(text, 1, Len(text) - 1))
    ELSE text
NotBlank(text) == RStrip(text) # <<>>

\* The fields of MainWindow the session uses.  scheduled: the call of line 583
\* is still to come.  pending: what the script writes if it lives on, out and
\* err.  opens and writes are the effects: the calls of QDesktopServices.openUrl
\* and the newlines written to the process.  url_chunks and prompt_chunks count
\* the chunks in which the address, and the prompt, was found.  dialog: the
\* entry "gh_auth.sh" of _auth_output_dialogs exists
AuthIdle ==
    [scheduled |-> FALSE, process |-> "NotRunning",
     pending |-> [out |-> <<>>, err |-> <<>>],
     stdout |-> <<>>, stderr |-> <<>>, last_emitted_text |-> <<>>,
     browser_opened |-> FALSE, enter_sent |-> FALSE,
     opens |-> 0, writes |-> 0, url_chunks |-> 0, prompt_chunks |-> 0,
     dialog |-> FALSE]
AuthStart == [AuthIdle EXCEPT !.scheduled = TRUE]

\* a handler that acts on every chunk
_handle_startup_auth_interactive_output_each(a, chunk) ==
    LET a1 == IF HasDeviceUrl(chunk)
              THEN [a EXCEPT !.browser_opened = TRUE, !.opens = @ + 1,
                             !.url_chunks = @ + 1]
              ELSE a
    IN  IF HasPressEnter(chunk)
        THEN [a1 EXCEPT !.enter_sent = TRUE, !.writes = @ + 1, !.prompt_chunks = @ + 1]
        ELSE a1

\* lines 613-620
_handle_startup_auth_interactive_output(a, chunk) ==
    LET a0 == [a EXCEPT !.url_chunks = IF HasDeviceUrl(chunk) THEN @ + 1 ELSE @,
                        !.prompt_chunks = IF HasPressEnter(chunk) THEN @ + 1 ELSE @]
        a1 == IF HasDeviceUrl(chunk) /\ ~a0.browser_opened
              THEN [a0 EXCEPT !.browser_opened = TRUE, !.opens = @ + 1]
              ELSE a0
    IN  IF HasPressEnter(chunk) /\ ~a1.enter_sent
        THEN [a1 EXCEPT !.enter_sent = TRUE, !.writes = @ + 1]
        ELSE a1

\* lines 622-633, with lines 818-829 for the dialog
_emit_startup_auth_output_update(a) ==
    LET out_part == IF NotBlank(a.stdout)
                    THEN <<"[stdout]", "NL">> \o RStrip(a.stdout) \o <<"NL">>
                    ELSE <<>>
        err_part == IF NotBlank(a.stderr)
                    THEN (IF out_part # <<>> THEN <<"NL">> ELSE <<>>)
                         \o <<"[stderr]", "NL">> \o RStrip(a.stderr)
                    ELSE <<>>
        text == RStrip(out_part \o err_part)
    IN  IF text # <<>> /\ text # a.last_emitted_text
        THEN [a EXCEPT !.last_emitted_text = text, !.dialog = TRUE]
        ELSE a

\* lines 597-603
_read_startup_auth_stdout(a, chunk) ==
    IF chunk = <<>> THEN a
    ELSE _emit_startup_auth_output_update(
             _handle_startup_auth_interactive_output(
                 [a EXCEPT !.stdout = @ \o chunk], chunk))

\* lines 605-611
_read_startup_auth_stderr(a, chunk) ==
    IF chunk = <<>> THEN a
    ELSE _emit_startup_auth_output_update(
             _handle_startup_auth_interactive_output(
                 [a EXCEPT !.stderr = @ \o chunk], chunk))

\* lines 635-648; out and err are what the two readAll calls return
_on_startup_auth_finished(a, exit_code, out, err) ==
    LET a1 == _emit_startup_auth_output_update(
                  _read_startup_auth_stderr(_read_startup_auth_stdout(a, out), err))
    IN  IF exit_code = 0 THEN [a1 EXCEPT !.dialog = FALSE] ELSE a1

\* lines 650-654
_on_startup_auth_error(a, out, err) ==
    _emit_startup_auth_output_update(
        _read_startup_auth_stderr(_read_startup_auth_stdout(a, out), err))

\* the process of the session has gone: nothing more is written
AuthGone(a) ==
    [a EXCEPT !.process = "NotRunning", !.pending = [out |-> <<>>, err |-> <<>>]]

\* ------------------------------------------------------------ the environment

\* what QProcess.start can do
Launches == {"ok", "failed"}
\* exit codes of a child that exits by itself, and of one a signal ends
ExitCodes == {0, 1}
CrashCodes == {9}

\* lines of the inventory listing
LineA == <<"a", "8G", "Acme">>
LineA2 == <<"a", "16G">>
LineB == <<"b", "4G", "Bolt">>
LineBlank == <<"">>
Listings ==
    {<<>>, <<LineA>>, <<LineB>>, <<LineA, LineB>>, <<LineA2, LineB>>, <<LineBlank, LineA>>}

\* what a workflow child writes if it lives long enough: standard output and
\* standard error
SizeLine == <<"M", "2", "0", "0", "0", "NL">>
Transfer1000 == <<"1", "0", "0", "0", "B", "T", "NL">>
Transfer2000 == <<"2", "0", "0", "0", "B", "T", "NL">>
Transfer500 == <<"5", "0", "0", "B", "T", "NL">>
FlashText == SizeLine \o Transfer1000 \o Transfer2000
ProgShort == [out |-> <<"M", "2", "NL", "1", "B", "T", "NL">>, err |-> <<>>]
ProgFlash == [out |-> FlashText, err |-> <<>>]
ProgTwoStreams == [out |-> SizeLine \o Transfer1000, err |-> Transfer500]
ProgLinks == [out |-> <<"UP", "R1", "NL", "UP", "R2", "NL">>, err |-> <<"x", "NL">>]
SysPrograms == {ProgShort}
RunPrograms == {ProgFlash, ProgTwoStreams, ProgLinks}

\* lines of an options text
LineInputs == YamlLine(0, <<"inputs", ":">>)
LineFoo == YamlLine(2, <<"foo", ":">>)
LineBar == YamlLine(2, <<"bar", ":">>)
LineType == YamlLine(4, <<"type", ":", " ", "boolean">>)
LineDefaultTrue == YamlLine(4, <<"default", ":", " ", "true">>)
LineDefaultNull == YamlLine(4, <<"default", ":", " ", "null">>)
LineRequiredFalse == YamlLine(4, <<"required", ":", " ", "false">>)
LineDefaultQuoted == YamlLine(4, <<"default", ":", " ", "\"", "a", "\"">>)
LineDefaultOpenQuote == YamlLine(4, <<"default", ":", " ", "\"", "a">>)
LineOptions == YamlLine(4, <<"options", ":">>)
LineOptionsScalar == YamlLine(4, <<"options", ":", " ", "a">>)
LineItemA == YamlLine(6, <<"-", " ", "a">>)
LineItemB == YamlLine(6, <<"-", " ", "b">>)
LineItemColon == YamlLine(6, <<"-", " ", "a", ":">>)
LineItemKeyValue == YamlLine(6, <<"-", " ", "a", ":", "b">>)
LineBraces == YamlLine(2, <<"{}">>)
LineEmpty == YamlLine(0, <<>>)
LineOutputs == YamlLine(0, <<"outputs", ":">>)
YamlLines ==
    {LineInputs, LineFoo, LineBar, LineType, LineDefaultTrue, LineDefaultNull,
     LineRequiredFalse, LineDefaultQuoted, LineDefaultOpenQuote, LineOptions,
     LineOptionsScalar, LineItemA, LineItemB, LineItemColon, LineItemKeyValue,
     LineBraces, LineEmpty, LineOutputs}

\* the two texts of the docstring examples
TextFoo == <<LineInputs, LineFoo, LineType, LineDefaultTrue>>
TextBar == <<LineInputs, LineBar, LineOptions, LineItemA, LineItemB>>
NamedTexts == {TextFoo, TextBar}
Begins(lines, text) == Len(lines) <= Len(text) /\ lines = SubSeq(text, 1, Len(lines))

\* what gh_auth.sh writes if it lives long enough
AuthTwoPrompts ==
    [out |-> <<"P", "SP", "U1", "U2", "NL", "P", "SP", "U1", "U2", "NL">>,
     err |-> <<"U1", "U2", ".", "U1", "U2", "w">>]
AuthQuiet == [out |-> <<"w", "NL">>, err |-> <<>>]
AuthPrograms == {AuthTwoPrompts, AuthQuiet}

\* the sizes of the chunk a readyRead can deliver, and of what is left to read
\* when the child ends: any split of the pending text (fine), or all of it
ChunkSizes(fine, pending) ==
    IF fine THEN 1..Len(pending) ELSE {Len(pending)} \ {0}
Residues(fine, pending) ==
    IF fine THEN 0..Len(pending) ELSE {Len(pending)}

First(text, n) == SubSeq(text, 1, n)
Rest(text, n) == SubSeq(text, n + 1, Len(text))

OpenDialogs == dialogs["a"] + dialogs["b"]

\* lastOp after a handler no property needs to tell from the others
Other == [op |-> "other"]

\* --------------------------------------------------------------------- actions

Init ==
    /\ tasks = EmptyDict
    /\ device_states = EmptyDict
    /\ device_progress = EmptyDict
    /\ workflow_runs = EmptyDict
    /\ workflow_history = EmptyDict
    /\ last_devices = None
    /\ last_device_rows = None
    /\ dialogs = [k \in Devices |-> 0]
    /\ process \in {"NotRunning", "Running"}
    /\ lastOp = Other
    /\ parser = ParserIdle
    /\ auth = AuthIdle

\* the timer tick.  script_exists is SCRIPT_PATH.exists().  The poll's QProcess
\* is read only by state() != NotRunning, so Starting and Running are one value.
refresh_devices(script_exists, launch) ==
    /\ process' = IF script_exists /\ process = "NotRunning" /\ launch = "ok"
                  THEN "Running" ELSE process
    /\ lastOp' = Other
    /\ UNCHANGED <<tasks, device_states, device_progress, workflow_runs,
                   workflow_history, last_devices, last_device_rows, dialogs>>
    /\ UNCHANGED <<parser, auth>>

\* MainWindow._on_error after FailedToStart: it writes the status line only
PollFailedToStart ==
    /\ process = "Running"
    /\ process' = "NotRunning"
    /\ lastOp' = Other
    /\ UNCHANGED <<tasks, device_states, device_progress, workflow_runs,
                   workflow_history, last_devices, last_device_rows, dialogs>>
    /\ UNCHANGED <<parser, auth>>

\* the poll ends with exit_code and listing on its standard output; lastOp keeps
\* with them the accepted keys before the poll, the keys that leave the accepted
\* list and whether the list widget was cleared and rebuilt
PollFinished(exit_code, listing) ==
    /\ process = "Running"
    /\ process' = "NotRunning"
    /\ Commit(MainWindow_on_finished(World, exit_code, listing))
    /\ lastOp' = [op |-> "poll_finished", exit_code |-> exit_code, listing |-> listing,
                  before |-> OrEmpty(last_devices),
                  removed |-> Range(OrEmpty(last_devices)) \ Range(OrEmpty(last_devices')),
                  rebuilt |-> Rebuilds(World, exit_code, listing)]
    /\ UNCHANGED dialogs
    /\ UNCHANGED <<parser, auth>>

\* itemDoubleClicked on the list item of device k
_open_workflow_options(k) ==
    /\ k \in Range(OrEmpty(last_devices))
    /\ k \in DOMAIN workflow_history \/ OpenDialogs < MaxDialogs
    /\ dialogs' = IF k \in DOMAIN workflow_history THEN dialogs
                  ELSE [dialogs EXCEPT ![k] = @ + 1]
    /\ lastOp' = Other
    /\ UNCHANGED <<tasks, device_states, device_progress, workflow_runs,
                   workflow_history, last_devices, last_device_rows, process>>
    /\ UNCHANGED <<parser, auth>>

\* the user closes an options dialog without running
DialogClosed(k) ==
    /\ dialogs[k] > 0
    /\ dialogs' = [dialogs EXCEPT ![k] = @ - 1]
    /\ lastOp' = Other
    /\ UNCHANGED <<tasks, device_states, device_progress, workflow_runs,
                   workflow_history, last_devices, last_device_rows, process>>
    /\ UNCHANGED <<parser, auth>>

\* WorkflowOptionsDialog.run_workflow: start_requested, then the dialog closes
run_workflow(k, inputs, script_exists, launch, prog) ==
    /\ dialogs[k] > 0
    /\ Commit(_start_workflow_for_device(World, k, inputs, script_exists, launch, prog))
    /\ dialogs' = [dialogs EXCEPT ![k] = @ - 1]
    /\ lastOp' = [op |-> "start", key |-> k, inputs |-> inputs,
                  script_exists |-> script_exists, launch |-> launch]
    /\ UNCHANGED process
    /\ UNCHANGED <<parser, auth>>

\* QProcess of task t: Starting -> Running
ProcessStarted(t) ==
    /\ tasks[t].process = "Starting"
    /\ tasks' = [tasks EXCEPT ![t].process = "Running"]
    /\ lastOp' = Other
    /\ UNCHANGED <<device_states, device_progress, workflow_runs,
                   workflow_history, last_devices, last_device_rows, dialogs, process>>
    /\ UNCHANGED <<parser, auth>>

\* the child of task t has gone: nothing more is written
Gone(w, t) ==
    [w EXCEPT !.tasks[t].process = "NotRunning",
              !.tasks[t].out_pending = <<>>,
              !.tasks[t].err_pending = <<>>]

\* errorOccurred(FailedToStart): the process is NotRunning and no finished follows
ProcessFailedToStart(t) ==
    /\ tasks[t].process = "Starting"
    /\ Commit(WorkflowRunTask_on_error(Gone(World, t), t, <<>>, <<>>))
    /\ lastOp' = [op |-> "error", task |-> t]
    /\ UNCHANGED <<dialogs, process>>
    /\ UNCHANGED <<parser, auth>>

\* errorOccurred(ReadError): the process keeps running
ProcessReadError(t) ==
    /\ tasks[t].process = "Running"
    /\ tasks[t].read_errors < MaxReadErrors
    /\ Commit(WorkflowRunTask_on_error(
           [World EXCEPT !.tasks[t].read_errors = @ + 1], t, <<>>, <<>>))
    /\ lastOp' = [op |-> "error", task |-> t]
    /\ UNCHANGED <<dialogs, process>>
    /\ UNCHANGED <<parser, auth>>

readyReadStandardOutput(t, n) ==
    /\ tasks[t].process = "Running"
    /\ n \in 1..Len(tasks[t].out_pending)
    /\ Commit(_read_stdout(
           [World EXCEPT !.tasks[t].out_pending = Rest(@, n)], t,
           First(tasks[t].out_pending, n)))
    /\ lastOp' = [op |-> "stdout", task |-> t]
    /\ UNCHANGED <<dialogs, process>>
    /\ UNCHANGED <<parser, auth>>

readyReadStandardError(t, n) ==
    /\ tasks[t].process = "Running"
    /\ n \in 1..Len(tasks[t].err_pending)
    /\ Commit(_read_stderr(
           [World EXCEPT !.tasks[t].err_pending = Rest(@, n)], t,
           First(tasks[t].err_pending, n)))
    /\ lastOp' = [op |-> "stderr", task |-> t]
    /\ UNCHANGED <<dialogs, process>>
    /\ UNCHANGED <<parser, auth>>

\* the child exits: finished(exit_code, NormalExit), with n_out and n_err tokens
\* written and not read yet
ProcessFinished(t, exit_code, n_out, n_err) ==
    /\ tasks[t].process = "Running"
    /\ Commit(WorkflowRunTask_on_finished(Gone(World, t), t, exit_code,
           First(tasks[t].out_pending, n_out), First(tasks[t].err_pending, n_err)))
    /\ lastOp' = [op |-> "finished", task |-> t, exit_code |-> exit_code]
    /\ UNCHANGED <<dialogs, process>>
    /\ UNCHANGED <<parser, auth>>

\* a signal ends the child: errorOccurred(Crashed), then finished(exit_code, CrashExit)
ProcessCrashed(t, exit_code, n_out, n_err) ==
    /\ tasks[t].process = "Running"
    /\ Commit(WorkflowRunTask_on_finished(
           WorkflowRunTask_on_error(Gone(World, t), t,
               First(tasks[t].out_pending, n_out), First(tasks[t].err_pending, n_err)),
           t, exit_code, <<>>, <<>>))
    /\ lastOp' = [op |-> "crashed", task |-> t, exit_code |-> exit_code]
    /\ UNCHANGED <<dialogs, process>>
    /\ UNCHANGED <<parser, auth>>

windowVars == <<tasks, device_states, device_progress, workflow_runs, workflow_history,
                last_devices, last_device_rows, dialogs, process>>

\* the for statement of line 129 takes the next line of the text
ParseLine(raw_line) ==
    /\ parser.pc = "loop"
    /\ parser.n < MaxLines
    /\ parser' = [parse_line(parser, raw_line) EXCEPT
                     !.n = @ + 1,
                     !.read = IF parser.read # None
                                 /\ \E text \in NamedTexts :
                                        Begins(Append(parser.read[1], raw_line), text)
                              THEN Some(Append(parser.read[1], raw_line))
                              ELSE None]
    /\ lastOp' = [op |-> "parse_line", line |-> raw_line]
    /\ UNCHANGED <<windowVars, auth>>

\* the text has no more lines: return inputs, line 172
ParseReturn ==
    /\ parser.pc = "loop"
    /\ parser' = [parser EXCEPT !.pc = "returned"]
    /\ lastOp' = [op |-> "parse_return"]
    /\ UNCHANGED <<windowVars, auth>>

\* lines 585-595, called once from the event loop (line 583).  script_exists is
\* GH_AUTH_SCRIPT_PATH.exists(); launch "failed" is a start that reports
\* FailedToStart from inside the call
_start_startup_auth(script_exists, launch, prog) ==
    /\ auth.scheduled
    /\ auth' = LET a == [auth EXCEPT !.scheduled = FALSE]
               IN  IF ~script_exists \/ a.process # "NotRunning" THEN a
                   ELSE IF launch = "failed" THEN _on_startup_auth_error(a, <<>>, <<>>)
                   ELSE [a EXCEPT !.process = "Starting", !.pending = prog]
    /\ lastOp' = [op |-> "auth_start"]
    /\ UNCHANGED <<windowVars, parser>>

AuthStarted ==
    /\ auth.process = "Starting"
    /\ auth' = [auth EXCEPT !.process = "Running"]
    /\ lastOp' = [op |-> "auth_started"]
    /\ UNCHANGED <<windowVars, parser>>

\* errorOccurred(FailedToStart)
AuthFailedToStart ==
    /\ auth.process = "Starting"
    /\ auth' = _on_startup_auth_error(AuthGone(auth), <<>>, <<>>)
    /\ lastOp' = [op |-> "auth_error"]
    /\ UNCHANGED <<windowVars, parser>>

AuthReadyReadStandardOutput(n) ==
    /\ auth.process = "Running"
    /\ n \in 1..Len(auth.pending.out)
    /\ auth' = _read_startup_auth_stdout(
                   [auth EXCEPT !.pending.out = Rest(@, n)], First(auth.pending.out, n))
    /\ lastOp' = [op |-> "auth_stdout", chunk |-> First(auth.pending.out, n)]
    /\ UNCHANGED <<windowVars, parser>>

AuthReadyReadStandardError(n) ==
    /\ auth.process = "Running"
    /\ n \in 1..Len(auth.pending.err)
    /\ auth' = _read_startup_auth_stderr(
                   [auth EXCEPT !.pending.err = Rest(@, n)], First(auth.pending.err, n))
    /\ lastOp' = [op |-> "auth_stderr", chunk |-> First(auth.pending.err, n)]
    /\ UNCHANGED <<windowVars, parser>>

\* the script exits: finished(exit_code, NormalExit), with n_out and n_err tokens
\* written and not read yet
AuthFinished(exit_code, n_out, n_err) ==
    /\ auth.process = "Running"
    /\ auth' = _on_startup_auth_finished(AuthGone(auth), exit_code,
                   First(auth.pending.out, n_out), First(auth.pending.err, n_err))
    /\ lastOp' = [op |-> "auth_finished", exit_code |-> exit_code]
    /\ UNCHANGED <<windowVars, parser>>

\* a signal ends the script: errorOccurred(Crashed), then finished(exit_code, CrashExit)
AuthCrashed(exit_code, n_out, n_err) ==
    /\ auth.process = "Running"
    /\ auth' = _on_startup_auth_finished(
                   _on_startup_auth_error(AuthGone(auth),
                       First(auth.pending.out, n_out), First(auth.pending.err, n_err)),
                   exit_code, <<>>, <<>>)
    /\ lastOp' = [op |-> "auth_crashed", exit_code |-> exit_code]
    /\ UNCHANGED <<windowVars, parser>>

\* the user closes the dialog of the script's output: destroyed, line 823
AuthDialogDestroyed ==
    /\ auth.dialog
    /\ auth' = [auth EXCEPT !.dialog = FALSE]
    /\ lastOp' = [op |-> "auth_dialog_destroyed"]
    /\ UNCHANGED <<windowVars, parser>>

\* ------------------------------------------------------------- specifications

\* The whole window: two devices, polls, dialogs and any number of runs.  Its
\* children write to standard output only, a read takes all a child has written,
\* a child ends by exit or by failing to start, and the form values differ from
\* one request to the next only where the request finds its device busy.  Read
\* errors, crashes, standard error and partial reads are in SpecRun.
Next ==
    \/ \E e \in BOOLEAN, l \in Launches : refresh_devices(e, l)
    \/ PollFailedToStart
    \/ \E listing \in Listings : PollFinished(0, listing)
    \/ \E c \in ExitCodes \ {0} : PollFinished(c, <<>>)
    \/ \E k \in Devices : _open_workflow_options(k)
    \/ \E k \in Devices : DialogClosed(k)
    \/ \E k \in Devices, i \in Inputs, e \in BOOLEAN, l \in Launches, p \in SysPrograms :
          /\ ExistingBusy(World, k) \/ i = [image |-> "v1"]
          /\ run_workflow(k, i, e, l, p)
    \/ \E t \in DOMAIN tasks :
          \/ ProcessStarted(t)
          \/ ProcessFailedToStart(t)
          \/ \E n \in ChunkSizes(FALSE, tasks[t].out_pending) : readyReadStandardOutput(t, n)
          \/ \E c \in ExitCodes, no \in Residues(FALSE, tasks[t].out_pending),
                ne \in Residues(FALSE, tasks[t].err_pending) : ProcessFinished(t, c, no, ne)

Spec == Init /\ [][Next]_vars

\* one run of device a: every program of RunPrograms, its output split into
\* chunks in every way, with read errors, crashes and both streams
NextRun ==
    \/ \E e \in BOOLEAN, l \in Launches : last_devices = None /\ refresh_devices(e, l)
    \/ PollFinished(0, <<LineA>>)
    \/ DOMAIN tasks = {} /\ OpenDialogs = 0 /\ _open_workflow_options("a")
    \/ \E e \in BOOLEAN, l \in Launches, p \in RunPrograms :
          DOMAIN tasks = {} /\ run_workflow("a", [image |-> "v1"], e, l, p)
    \/ \E t \in DOMAIN tasks :
          \/ ProcessStarted(t)
          \/ ProcessFailedToStart(t)
          \/ ProcessReadError(t)
          \/ \E n \in ChunkSizes(TRUE, tasks[t].out_pending) : readyReadStandardOutput(t, n)
          \/ \E n \in ChunkSizes(TRUE, tasks[t].err_pending) : readyReadStandardError(t, n)
          \/ \E c \in ExitCodes, no \in Residues(TRUE, tasks[t].out_pending),
                ne \in Residues(TRUE, tasks[t].err_pending) : ProcessFinished(t, c, no, ne)
          \/ \E c \in CrashCodes, no \in Residues(TRUE, tasks[t].out_pending),
                ne \in Residues(TRUE, tasks[t].err_pending) : ProcessCrashed(t, c, no, ne)

SpecRun == Init /\ [][NextRun]_vars

\* one call of parse_workflow_options_yaml on a text of at most MaxLines lines
\* of YamlLines
InitParse ==
    /\ tasks = EmptyDict
    /\ device_states = EmptyDict
    /\ device_progress = EmptyDict
    /\ workflow_runs = EmptyDict
    /\ workflow_history = EmptyDict
    /\ last_devices = None
    /\ last_device_rows = None
    /\ dialogs = [k \in Devices |-> 0]
    /\ process = "NotRunning"
    /\ lastOp = Other
    /\ parser = ParserStart
    /\ auth = AuthIdle

NextParse ==
    \/ \E raw_line \in YamlLines : ParseLine(raw_line)
    \/ ParseReturn

SpecParse == InitParse /\ [][NextParse]_vars /\ WF_vars(NextParse)

\* the startup authentication session: every program of AuthPrograms, its
\* output split into chunks in every way
InitAuth ==
    /\ tasks = EmptyDict
    /\ device_states = EmptyDict
    /\ device_progress = EmptyDict
    /\ workflow_runs = EmptyDict
    /\ workflow_history = EmptyDict
    /\ last_devices = None
    /\ last_device_rows = None
    /\ dialogs = [k \in Devices |-> 0]
    /\ process = "NotRunning"
    /\ lastOp = Other
    /\ parser = ParserIdle
    /\ auth = AuthStart

NextAuth ==
    \/ \E e \in BOOLEAN, l \in Launches, p \in AuthPrograms : _start_startup_auth(e, l, p)
    \/ AuthStarted
    \/ AuthFailedToStart
    \/ \E n \in ChunkSizes(TRUE, auth.pending.out) : AuthReadyReadStandardOutput(n)
    \/ \E n \in ChunkSizes(TRUE, auth.pending.err) : AuthReadyReadStandardError(n)
    \/ \E c \in ExitCodes, no \in Residues(TRUE, auth.pending.out),
          ne \in Residues(TRUE, auth.pending.err) : AuthFinished(c, no, ne)
    \/ \E c \in CrashCodes, no \in Residues(TRUE, auth.pending.out),
          ne \in Residues(TRUE, auth.pending.err) : AuthCrashed(c, no, ne)
    \/ AuthDialogDestroyed

SpecAuth == InitAuth /\ [][NextAuth]_vars

\* the window with device a and the startup authentication session side by side:
\* polls that list a or nothing, runs of a, and a script that writes AuthQuiet
InitBoth ==
    /\ tasks = EmptyDict
    /\ device_states = EmptyDict
    /\ device_progress = EmptyDict
    /\ workflow_runs = EmptyDict
    /\ workflow_history = EmptyDict
    /\ last_devices = None
    /\ last_device_rows = None
    /\ dialogs = [k \in Devices |-> 0]
    /\ process \in {"NotRunning", "Running"}
    /\ lastOp = Other
    /\ parser = ParserIdle
    /\ auth = AuthStart

NextBoth ==
    \/ \E e \in BOOLEAN, l \in Launches : refresh_devices(e, l)
    \/ PollFailedToStart
    \/ \E listing \in {<<>>, <<LineA>>} : PollFinished(0, listing)
    \/ _open_workflow_options("a")
    \/ DialogClosed("a")
    \/ \E e \in BOOLEAN, l \in Launches, p \in SysPrograms :
          run_workflow("a", [image |-> "v1"], e, l, p)
    \/ \E t \in DOMAIN tasks :
          \/ ProcessStarted(t)
          \/ ProcessFailedToStart(t)
          \/ \E n \in ChunkSizes(FALSE, tasks[t].out_pending) : readyReadStandardOutput(t, n)
          \/ \E c \in ExitCodes, no \in Residues(FALSE, tasks[t].out_pending),
                ne \in Residues(FALSE, tasks[t].err_pending) : ProcessFinished(t, c, no, ne)
    \/ \E e \in BOOLEAN, l \in Launches : _start_startup_auth(e, l, AuthQuiet)
    \/ AuthStarted
    \/ AuthFailedToStart
    \/ \E n \in ChunkSizes(FALSE, auth.pending.out) : AuthReadyReadStandardOutput(n)
    \/ \E c \in ExitCodes, no \in Residues(FALSE, auth.pending.out),
          ne \in Residues(FALSE, auth.pending.err) : AuthFinished(c, no, ne)
    \/ AuthDialogDestroyed

SpecBoth == InitBoth /\ [][NextBoth]_vars

\* ------------------------------------------------------------------ properties

\* a process of task t, workflow or auth, has not ended
HasActiveProcess(t) ==
    tasks[t].process # "NotRunning" \/ tasks[t].auth_process # "NotRunning"

\* the non-empty keys of the lines of a listing
ObservedKeys(listing) ==
    {listing[i][1] : i \in {j \in 1..Len(listing) : listing[j] # <<>> /\ listing[j][1] # ""}}

\* d.get(k) of a dict
Entry(d, k) == IF k \in DOMAIN d THEN Some(d[k]) ELSE None

\* the last row of key k in a row list
LastRowOf(rows, k) == rows[SetMax({i \in 1..Len(rows) : rows[i][1] = k})]

\* this step is a successful poll
SuccessfulPoll == lastOp'.op = "poll_finished" /\ lastOp'.exit_code = 0

\* key k was accepted, the listing of this step omits it, and its task is active
RetentionCase(k) ==
    /\ k \in Range(OrEmpty(last_devices))
    /\ k \notin ObservedKeys(lastOp'.listing)
    /\ k \in DOMAIN workflow_runs
    /\ HasActiveProcess(workflow_runs[k])

\* C1: a successful poll whose rows differ from the accepted rows keeps every
\* accepted key that the listing omits and whose task has an active process: the
\* key stays in the accepted key list and row list with its last accepted row,
\* and its run, history, state and progress entries are not forgotten.
C1_Retention ==
    [][(SuccessfulPoll /\ ParseRows(lastOp'.listing) # OrEmpty(last_device_rows))
       => \A k \in Devices :
            RetentionCase(k) =>
              /\ k \in Range(OrEmpty(last_devices'))
              /\ k \in Range(KeysOf(OrEmpty(last_device_rows')))
              /\ LastRowOf(OrEmpty(last_device_rows'), k)
                   = LastRowOf(OrEmpty(last_device_rows), k)
              /\ k \in DOMAIN workflow_runs' /\ workflow_runs'[k] = workflow_runs[k]
              /\ Entry(workflow_history', k) = Entry(workflow_history, k)
              /\ Entry(device_states', k) = Entry(device_states, k)
              /\ Entry(device_progress', k) = Entry(device_progress, k)
              /\ ~tasks'[workflow_runs[k]].kill_requested]_vars

\* a successful poll has just retained a key the listing omits
C1_Witness ==
    /\ lastOp.op = "poll_finished" /\ lastOp.exit_code = 0
    /\ \E k \in Range(OrEmpty(last_devices)) :
         /\ k \notin ObservedKeys(lastOp.listing)
         /\ ObservedKeys(lastOp.listing) # {}
         /\ k \in DOMAIN workflow_runs
         /\ tasks[workflow_runs[k]].process = "Running"

\* C2: when no task has an active process, after a successful poll the accepted
\* keys are exactly the non-empty keys of the listing, and every accepted key the
\* listing omits has lost its state, progress, history and run entries.
C2_NoRetention ==
    [][(SuccessfulPoll /\ \A t \in DOMAIN tasks : ~HasActiveProcess(t))
       => /\ Range(OrEmpty(last_devices')) = ObservedKeys(lastOp'.listing)
          /\ \A k \in Range(OrEmpty(last_devices)) \ ObservedKeys(lastOp'.listing) :
               /\ k \notin DOMAIN device_states'
               /\ k \notin DOMAIN device_progress'
               /\ k \notin DOMAIN workflow_history'
               /\ k \notin DOMAIN workflow_runs']_vars

\* a successful poll has just dropped a key that had a finished run
C2_Witness ==
    /\ lastOp.op = "poll_finished" /\ lastOp.exit_code = 0
    /\ lastOp.removed # {}
    /\ \A t \in DOMAIN tasks : ~HasActiveProcess(t)
    /\ DOMAIN tasks # {}
    /\ DOMAIN workflow_runs = ObservedKeys(lastOp.listing)
    /\ DOMAIN workflow_runs # Devices

\* C3: a start request for a key whose registered task has an active process
\* changes nothing: no task is created, no process is started, and the run and
\* history entries and the record of the task stay as they were.
C3_BusyStartNoOp ==
    [][(/\ lastOp'.op = "start"
        /\ lastOp'.key \in DOMAIN workflow_runs
        /\ HasActiveProcess(workflow_runs[lastOp'.key]))
       => /\ tasks' = tasks
          /\ workflow_runs' = workflow_runs
          /\ workflow_history' = workflow_history
          /\ device_states' = device_states
          /\ device_progress' = device_progress]_vars

\* a start request with other inputs has just found its key busy
C3_Witness ==
    /\ lastOp.op = "start"
    /\ lastOp.key \in DOMAIN workflow_runs
    /\ tasks[workflow_runs[lastOp.key]].process = "Running"
    /\ tasks[workflow_runs[lastOp.key]].stdout # <<>>
    /\ tasks[workflow_runs[lastOp.key]].inputs # lastOp.inputs

\* the tasks made for key k whose workflow process has not ended
ActiveProcesses(k) ==
    {t \in DOMAIN tasks : tasks[t].device_path = k /\ tasks[t].process # "NotRunning"}

\* C4: in every reachable state at most one workflow process is active for a
\* device key, the processes of replaced and forgotten tasks counted.
C4_OneProcessPerKey == \A k \in Devices : Cardinality(ActiveProcesses(k)) <= 1

\* both keys have an active process, one of them in the second run of its key
C4_Witness ==
    /\ \A k \in Devices : Cardinality(ActiveProcesses(k)) = 1
    /\ \E t \in DOMAIN tasks : t[2] = 2 /\ tasks[t].process = "Running"

Terminal == {"done", "failed"}

\* C5: in the state_changed events of a run, a 'running' event comes before
\* every event with a terminal state, on every path through start.
C5_RunningBeforeTerminal ==
    \A t \in DOMAIN tasks :
        \A i \in 1..Len(tasks[t].state_events) :
            tasks[t].state_events[i] \in Terminal
            => \E j \in 1..(i - 1) : tasks[t].state_events[j] = "running"

\* C6: a run emits at most one state_changed event with a terminal state.
C6_OneTerminalEvent ==
    \A t \in DOMAIN tasks :
        Cardinality({i \in 1..Len(tasks[t].state_events) :
                        tasks[t].state_events[i] \in Terminal}) <= 1

\* C7: once the state of a run record is 'done' or 'failed' no step changes it,
\* and a start for a key whose record is terminal registers a new record in place
\* of the old one.
C7_TerminalFinal ==
    [][/\ \A t \in DOMAIN tasks \cap DOMAIN tasks' :
             tasks[t].state \in Terminal => tasks'[t].state = tasks[t].state
       /\ (/\ lastOp'.op = "start"
           /\ lastOp'.key \in DOMAIN workflow_runs
           /\ ~HasActiveProcess(workflow_runs[lastOp'.key]))
          => /\ workflow_runs'[lastOp'.key] # workflow_runs[lastOp'.key]
             /\ workflow_runs[lastOp'.key] \notin DOMAIN tasks']_vars

\* C8: the percentages progress_changed emits in a run never decrease and lie
\* in 0..100.
C8_ProgressMonotone ==
    \A t \in DOMAIN tasks :
        LET e == tasks[t].progress_events
        IN  /\ \A i \in 1..Len(e) : e[i] \in 0..100
            /\ \A i \in 1..(Len(e) - 1) : e[i] <= e[i + 1]

\* the run has read the size line, the 1000 marker and the 2000 marker, in this
\* order and nothing else, and its process has exited
FlashDelivered(t) ==
    /\ tasks[t].stdout = FlashText
    /\ tasks[t].stderr = <<>>
    /\ tasks[t].exit_code # None

\* C9 as claimed: after that output and the exit, the progress_changed
\* emissions of the run are exactly 0, 50, 100.
C9_Original ==
    \A t \in DOMAIN tasks : FlashDelivered(t) => tasks[t].progress_events = <<0, 50, 100>>

\* C9: when each of the three lines arrived in a read of its own, the
\* progress_changed emissions of the run are exactly 0, 50, 100.
C9_LineByLine ==
    \A t \in DOMAIN tasks :
        (FlashDelivered(t) /\ tasks[t].line_chunks)
        => tasks[t].progress_events = <<0, 50, 100>>

\* a run that read the three lines one by one has exited
C9_Witness ==
    \E t \in DOMAIN tasks :
        /\ FlashDelivered(t) /\ tasks[t].line_chunks
        /\ tasks[t].process = "NotRunning"
        /\ tasks[t].state \in Terminal

\* the last element of a non-empty sequence
Last(seq) == seq[Len(seq)]

\* C10: a run whose process finished with exit code 0 is 'done', the last
\* percentage it emitted is 100 and so is the cached progress of its device,
\* with or without a size hint or a transfer marker in its output.
C10_ExitZeroDone ==
    \A t \in DOMAIN tasks :
        tasks[t].exit_code = Some(0)
        => /\ tasks[t].state = "done"
           /\ tasks[t].last_progress_percent = 100
           /\ tasks[t].progress_events # <<>> /\ Last(tasks[t].progress_events) = 100
           /\ tasks[t].device_path \in DOMAIN device_progress
           /\ device_progress[tasks[t].device_path] = 100

\* a run that never saw a size hint has finished with exit code 0
C10_Witness ==
    \E t \in DOMAIN tasks :
        /\ tasks[t].exit_code = Some(0)
        /\ tasks[t].flash_total_bytes = None
        /\ tasks[t].stdout # <<>>
        /\ lastOp = [op |-> "finished", task |-> t, exit_code |-> 0]

\* key k has no entry in the run map, the history, the state cache and the
\* progress cache
NoEntries(k) ==
    /\ k \notin DOMAIN workflow_runs
    /\ k \notin DOMAIN workflow_history
    /\ k \notin DOMAIN device_states
    /\ k \notin DOMAIN device_progress

\* the record of the task registered for key k is as WorkflowRunInfo makes it
FreshRecord(k) ==
    /\ k \in DOMAIN workflow_runs
    /\ k \in DOMAIN workflow_history
    /\ workflow_history[k] = workflow_runs[k]
    /\ LET task == tasks[workflow_runs[k]]
       IN  /\ task.device_path = k
           /\ task.state = "running"
           /\ task.stdout = <<>>
           /\ task.stderr = <<>>
           /\ task.run_url = <<>>
           /\ task.exit_code = None

\* this step is a start request for key k, with the script present, and k has
\* no run
StartOfForgotten(k) ==
    /\ lastOp'.op = "start"
    /\ lastOp'.key = k
    /\ lastOp'.script_exists
    /\ k \notin DOMAIN workflow_runs

C12_ForgetNeverKills ==
    [][/\ SuccessfulPoll
          => \A k \in lastOp'.removed :
               \A t \in DOMAIN tasks : tasks[t].device_path = k => ~HasActiveProcess(t)
       /\ \A t \in DOMAIN tasks' : ~tasks'[t].kill_requested]_vars

\* a poll with an empty listing has just forgotten one key while the task of the
\* other key, still running, kept that key in the inventory
C12_Witness ==
    /\ lastOp.op = "poll_finished" /\ lastOp.exit_code = 0
    /\ lastOp.listing = <<>>
    /\ \E k \in Devices :
         /\ lastOp.removed = {k}
         /\ OrEmpty(last_devices) = Sorted(Devices \ {k})
         /\ \A j \in Devices \ {k} :
              j \in DOMAIN workflow_runs /\ HasActiveProcess(workflow_runs[j])

\* the first line of lines that is a run link
FirstRunLink(lines) == lines[SetMin({i \in 1..Len(lines) : IsRunLink(lines[i])})]

\* what a step appended to a text
Appended(before, after) == SubSeq(after, Len(before) + 1, Len(after))

\* C13: a run URL that is set is never changed by a later step, and the step
\* that sets it takes the first run link of the standard output it reads.
C13_FirstUrlKept ==
    [][\A t \in DOMAIN tasks \cap DOMAIN tasks' :
          /\ tasks[t].run_url # <<>> => tasks'[t].run_url = tasks[t].run_url
          /\ (tasks[t].run_url = <<>> /\ tasks'[t].run_url # <<>>)
             => tasks'[t].run_url =
                  FirstRunLink(SplitLines(Appended(tasks[t].stdout, tasks'[t].stdout)))]_vars

\* C14: a successful poll whose rows after retention are the accepted rows takes
\* the no-change path: it does not reassign the rows and keys nor clear and
\* rebuild the list.
C14_NoChangePath ==
    [][(SuccessfulPoll /\ OrEmpty(last_device_rows') = OrEmpty(last_device_rows))
       => ~lastOp'.rebuilt]_vars

\* the task registered for key k has an active process
ActiveRun(k) == k \in DOMAIN workflow_runs /\ HasActiveProcess(workflow_runs[k])

\* C15 as claimed, in the case of a key without any run: such a key is in the
\* accepted inventory because the last observed set had it, so the listing of
\* this poll is the first to omit it, and the key is still accepted after the poll.
C15_Original ==
    [][SuccessfulPoll
       => \A k \in Range(OrEmpty(last_devices)) :
            (k \notin DOMAIN workflow_runs /\ k \notin ObservedKeys(lastOp'.listing))
            => k \in Range(OrEmpty(last_devices'))]_vars

\* C15: a successful poll removes an accepted key exactly when its listing omits
\* the key and the task registered for the key, if any, has no active process: a
\* single absence is enough.
C15_RemovedOnFirstAbsence ==
    [][SuccessfulPoll
       => \A k \in Range(OrEmpty(last_devices)) :
            k \notin Range(OrEmpty(last_devices'))
            <=> (k \notin ObservedKeys(lastOp'.listing) /\ ~ActiveRun(k))]_vars

\* a poll that lists one key has just removed the other, while the task of the
\* listed key is running
C15_Witness ==
    /\ lastOp.op = "poll_finished" /\ lastOp.exit_code = 0
    /\ \E k \in Devices :
         /\ lastOp.removed = {k}
         /\ ObservedKeys(lastOp.listing) = Devices \ {k}
         /\ Range(OrEmpty(last_devices)) = Devices \ {k}
         /\ \A j \in Devices \ {k} : ActiveRun(j)

\* the task registered for key k failed at start and has no process
FailedWithoutProcess(k) ==
    /\ k \in DOMAIN workflow_runs
    /\ LET task == tasks[workflow_runs[k]]
       IN  /\ task.state = "failed"
           /\ task.state_events = <<"failed">>
           /\ task.process = "NotRunning"
           /\ task.exit_code = None

\* C16: a start that finds the workflow script absent leaves its run record
\* 'failed' with one state_changed 'failed' event and no process, and a task
\* whose first event is that 'failed' never gets a process, a state or an event
\* afterwards.
C16_AbsentScriptFails ==
    [][/\ \A k \in Devices :
            (/\ lastOp'.op = "start" /\ lastOp'.key = k
             /\ ~lastOp'.script_exists
             /\ ~ActiveRun(k))
            => FailedWithoutProcess(k)'
       /\ \A t \in DOMAIN tasks \cap DOMAIN tasks' :
            (tasks[t].state_events # <<>> /\ tasks[t].state_events[1] = "failed")
            => /\ tasks'[t].process = "NotRunning"
               /\ tasks'[t].state = "failed"
               /\ tasks'[t].state_events = <<"failed">>]_vars

\* a start has just found the script absent
C16_Witness ==
    /\ lastOp.op = "start" /\ ~lastOp.script_exists
    /\ FailedWithoutProcess(lastOp.key)
    /\ tasks[workflow_runs[lastOp.key]].stderr # <<>>
    /\ device_states[lastOp.key] = "failed"

\* ------------------------------------------------ properties of the parser

\* the loop is inside the inputs section with a field open
InField(p) == p.pc = "loop" /\ p.in_inputs /\ p.current_input # None

\* a second-level line key: value, and a third-level line that begins "- "
KeyValueLine(l) ==
    /\ l.indent = 4
    /\ Contains(l.body, ":")
    /\ ~(EndsWith(l.body, ":") /\ ~Contains(ButLast(l.body), ":"))
ItemLine(l) ==
    l.indent = 6 /\ Len(l.body) >= 2 /\ l.body[1] = "-" /\ l.body[2] = " "

\* true, false and null, and any other text as it is written
LiteralScalar(value) ==
    LET v == StripSpaces(value)
    IN  CASE v = <<"true">> -> Bool("true")
          [] v = <<"false">> -> Bool("false")
          [] v = <<"null">> -> Null
          [] OTHER -> Str(v)

\* the same, with a text in double quotes read as the text between the quotes
QuotedScalar(value) ==
    LET v == StripSpaces(value)
    IN  IF Len(v) >= 1 /\ v[1] = "\"" /\ v[Len(v)] = "\""
        THEN Str(SubSeq(v, 2, Len(v) - 1))
        ELSE LiteralScalar(v)

\* line l is read and sets its attribute of the current field to value, changes
\* nothing else of the mapping and leaves no attribute key pending
SetsAttribute(l, value) ==
    LET field == parser.current_input[1]
        key == StripSpaces(SplitKey(l.body, ":"))
    IN  /\ parser'.pc = "loop"
        /\ field \in DOMAIN parser.inputs
        /\ parser'.inputs = [parser.inputs EXCEPT ![field] = Put(@, key, value)]
        /\ parser'.current_input = parser.current_input
        /\ parser'.current_key = None

\* the result for the text inputs:, foo:, type: boolean, default: true
ExpectedFoo ==
    (<<"foo">> :> (<<"type">> :> Str(<<"boolean">>) @@ <<"default">> :> Bool("true")))
ReturnedFoo ==
    (parser.pc = "returned" /\ parser.read = Some(TextFoo)) => parser.inputs = ExpectedFoo

\* C17 as stated: every value that is not true, false or null is kept as the
\* trimmed literal.
C17_Original ==
    /\ [][\A l \in YamlLines :
            (/\ lastOp'.op = "parse_line" /\ lastOp'.line = l
             /\ KeyValueLine(l) /\ InField(parser))
            => SetsAttribute(l, LiteralScalar(SplitValue(l.body, ":")))]_vars
    /\ []ReturnedFoo

\* C17: inside the inputs section, a second-level key: value line sets that
\* attribute of the current field to the interpreted scalar (true, false and null
\* become the booleans and null, a text in double quotes becomes the text between
\* the quotes, any other text is the trimmed literal) and clears the pending
\* attribute key; the text inputs:, foo:, type: boolean, default: true gives
\* exactly one field foo with type "boolean" and default true.
C17_KeyValueSetsScalar ==
    /\ [][\A l \in YamlLines :
            (/\ lastOp'.op = "parse_line" /\ lastOp'.line = l
             /\ KeyValueLine(l) /\ InField(parser))
            => SetsAttribute(l, QuotedScalar(SplitValue(l.body, ":")))]_vars
    /\ []ReturnedFoo

\* default: "a" has just been read in a field whose options list is open
C17_Witness ==
    /\ lastOp.op = "parse_line" /\ lastOp.line = LineDefaultQuoted
    /\ HasField(parser)
    /\ LET attrs == parser.inputs[parser.current_input[1]]
       IN  /\ DOMAIN attrs = {<<"options">>, <<"default">>}
           /\ attrs[<<"default">>] = Str(<<"a">>)
           /\ attrs[<<"options">>] = List(<<>>)
    /\ parser.current_key = None

\* the choice list of the current field
Options(p) == p.inputs[p.current_input[1]][<<"options">>]

\* the result for the text inputs:, bar:, options:, - a, - b
ExpectedBar ==
    (<<"bar">> :> (<<"options">> :> List(<<Str(<<"a">>), Str(<<"b">>)>>)))
ReturnedBar ==
    (parser.pc = "returned" /\ parser.read = Some(TextBar)) => parser.inputs = ExpectedBar

\* C18: every third-level line that begins "- " and is read while the pending
\* attribute key is options appends exactly one scalar to the choice list of the
\* current field, whatever the item text is, and leaves options the pending key;
\* the text inputs:, bar:, options:, - a, - b gives the choice list ["a", "b"].
C18_EveryItemAppended ==
    /\ [][\A l \in YamlLines :
            (/\ lastOp'.op = "parse_line" /\ lastOp'.line = l
             /\ ItemLine(l) /\ InField(parser)
             /\ parser.current_key = Some(<<"options">>))
            => /\ parser'.pc = "loop"
               /\ parser'.current_input = parser.current_input
               /\ parser'.current_key = Some(<<"options">>)
               /\ Options(parser).kind = "list" /\ Options(parser').kind = "list"
               /\ Len(Options(parser').items) = Len(Options(parser).items) + 1
               /\ ButLast(Options(parser').items) = Options(parser).items]_vars
    /\ []ReturnedBar

\* C19: parse_workflow_options_yaml returns for every text: whatever the lines
\* are, the call reaches return inputs, and so never ends in an exception.
C19_AlwaysReturns == <>(parser.pc = "returned")

\* an attribute line with an unbalanced quote has just been read inside the inputs
\* section before any field, and the loop goes on
C19_Witness ==
    /\ lastOp.op = "parse_line" /\ lastOp.line = LineDefaultOpenQuote
    /\ parser.pc = "loop"
    /\ parser.in_inputs /\ parser.current_input = None
    /\ parser.inputs = EmptyDict

\* ----------------------------------- properties of the startup authentication

\* C20: in the authentication session, whatever chunks arrive on standard output
\* and standard error, the browser is opened at most once and the newline is
\* written to the process at most once.
C20_OpenAndEnterOnce == auth.opens <= 1 /\ auth.writes <= 1

\* the address and the prompt were each found in two chunks or more, and the
\* browser was opened once and the newline written once
C20_Witness ==
    /\ auth.url_chunks >= 2 /\ auth.prompt_chunks >= 2
    /\ auth.opens = 1 /\ auth.writes = 1

\* ------------------------------------------ properties of the poll and the runs

\* C21: a poll that ends with an exit code other than 0 changes none of the
\* accepted rows and keys, the run map, the run history, the state cache and the
\* progress cache, changes no task, forgets no device, and leaves the poll
\* process not running, so that the next timer tick starts a poll.
C21_FailedPollKeepsAll ==
    [][(lastOp'.op = "poll_finished" /\ lastOp'.exit_code # 0)
       => /\ UNCHANGED <<last_device_rows, last_devices, workflow_runs,
                         workflow_history, device_states, device_progress, tasks>>
          /\ lastOp'.removed = {}
          /\ process' = "NotRunning"]_vars

\* a poll has just failed while device a is listed with a run in progress and a
\* cached progress value
C21_Witness ==
    /\ lastOp.op = "poll_finished" /\ lastOp.exit_code # 0
    /\ "a" \in Range(OrEmpty(last_devices))
    /\ "a" \in DOMAIN workflow_runs /\ tasks[workflow_runs["a"]].process = "Running"
    /\ "a" \in DOMAIN device_progress

\* the events of the process of a run task
TaskEvents == {"stdout", "stderr", "error", "finished", "crashed"}

\* the step leaves alone all that MainWindow keeps for device j: its entries of
\* the run map, the history and the two caches, and every task made for j
DeviceUntouched(j) ==
    /\ Entry(workflow_runs, j)' = Entry(workflow_runs, j)
    /\ Entry(workflow_history, j)' = Entry(workflow_history, j)
    /\ Entry(device_states, j)' = Entry(device_states, j)
    /\ Entry(device_progress, j)' = Entry(device_progress, j)
    /\ \A u \in DOMAIN tasks :
          u[1] = j => u \in DOMAIN tasks' /\ tasks'[u] = tasks[u]

\* C22: an output, error or finished event of the run task of device k leaves
\* unchanged the run record, the history entry, the cached state and the cached
\* progress of every other device, and the accepted rows and keys.
C22_OtherDevicesUntouched ==
    [][lastOp'.op \in TaskEvents
       => /\ \A j \in Devices \ {lastOp'.task[1]} : DeviceUntouched(j)
          /\ UNCHANGED <<last_device_rows, last_devices>>]_vars

\* the run of device b has just finished while the run of device a is in progress
C22_Witness ==
    /\ lastOp.op = "finished" /\ lastOp.task[1] = "b"
    /\ "a" \in DOMAIN workflow_runs /\ tasks[workflow_runs["a"]].process = "Running"
    /\ "a" \in DOMAIN device_states /\ "b" \in DOMAIN device_states
    /\ device_states["a"] # device_states["b"]

\* the total an _update_flash_progress finds when all that task t has read comes
\* to it at once
WholeTextHint(t) ==
    SizeSearch(tasks[t].stdout \o <<"NL">> \o tasks[t].stderr)

\* C23: however the output of a run was split into chunks, the total-size hint
\* the run ends with is the hint that the whole text gives as one chunk.
C23_HintOfWholeText ==
    \A t \in DOMAIN tasks :
        (tasks[t].process = "NotRunning" /\ tasks[t].exit_code # None)
        => tasks[t].flash_total_bytes = WholeTextHint(t)

\* the session is over: the script was started and its process has ended
AuthOver == ~auth.scheduled /\ auth.process = "NotRunning"

\* C24: an authentication session whose accumulated output holds the prompt has
\* written the newline to the process by the time it is over, and one whose
\* accumulated output holds the address has opened the browser, however the
\* output was split into chunks.
C24_PromptAlwaysAnswered ==
    AuthOver =>
        /\ (HasPressEnter(auth.stdout) \/ HasPressEnter(auth.stderr)) => auth.writes >= 1
        /\ (HasDeviceUrl(auth.stdout) \/ HasDeviceUrl(auth.stderr)) => auth.opens >= 1

\* the step is a start request for device k, whose registered run has ended with
\* an exit code, and it registers a new task
RestartOfFinished(k) ==
    /\ lastOp'.op = "start" /\ lastOp'.key = k
    /\ k \in DOMAIN workflow_runs
    /\ tasks[workflow_runs[k]].process = "NotRunning"
    /\ tasks[workflow_runs[k]].exit_code # None
    /\ k \in DOMAIN workflow_runs' /\ workflow_runs'[k] # workflow_runs[k]

\* C25: right after _start_workflow_for_device has made a new run for a device
\* whose previous run has finished, no progress is recorded for the device.
C25_ProgressUnsetOnNewRun ==
    [][\A k \in Devices : RestartOfFinished(k) => k \notin DOMAIN device_progress']_vars

\* the workflow process of the task registered for k has not ended
WorkflowActive(k) ==
    k \in DOMAIN workflow_runs /\ tasks[workflow_runs[k]].process # "NotRunning"

\* C26: no task ever has an active auth_process, so the busy test of the start
\* request and of the reconciler is true of a task exactly when its workflow
\* process is active, whatever the startup authentication process does.
C26_BusyIsWorkflowActive ==
    /\ \A t \in DOMAIN tasks :
          /\ tasks[t].auth_process = "NotRunning"
          /\ Active(tasks[t]) <=> tasks[t].process # "NotRunning"
    /\ \A k \in Devices :
          /\ ExistingBusy(World, k) <=> WorkflowActive(k)
          /\ RetainedMissing(World, k) <=> WorkflowActive(k)

\* the startup authentication process runs while the run registered for device a
\* has ended
C26_Witness ==
    /\ auth.process = "Running"
    /\ "a" \in DOMAIN workflow_runs
    /\ tasks[workflow_runs["a"]].process = "NotRunning"
    /\ tasks[workflow_runs["a"]].exit_code # None

\* key k was accepted, the listing of this step omits it, and the run registered
\* for it has no active process: a device kept for its run, whose run has ended
ReleaseCase(k) ==
    /\ k \in Range(OrEmpty(last_devices))
    /\ k \notin ObservedKeys(lastOp'.listing)
    /\ k \in DOMAIN workflow_runs
    /\ ~HasActiveProcess(workflow_runs[k])

\* C27: a successful poll whose listing omits an accepted device whose run has no
\* active process forgets the device: the key leaves the accepted rows and keys,
\* the run map, the history, the state cache and the progress cache.  A device
\* kept for its run is therefore released by the first successful poll after the
\* run has ended that does not list it.
C27_ReleasedAfterRun ==
    [][SuccessfulPoll
       => \A k \in Devices :
            ReleaseCase(k)
            => /\ k \notin Range(OrEmpty(last_devices'))
               /\ k \notin Range(KeysOf(OrEmpty(last_device_rows')))
               /\ k \notin DOMAIN workflow_runs'
               /\ k \notin DOMAIN workflow_history'
               /\ k \notin DOMAIN device_states'
               /\ k \notin DOMAIN device_progress']_vars

\* Device a stood after b in the accepted keys, where only the retention of the
\* reconciler puts it (every listing names a before b); a successful poll that
\* lists b alone has just forgotten a
C27_Witness ==
    /\ lastOp.op = "poll_finished" /\ lastOp.exit_code = 0
    /\ lastOp.before = <<"b", "a">>
    /\ lastOp.removed = {"a"}
    /\ ObservedKeys(lastOp.listing) = {"b"}
    /\ last_devices = Some(<<"b">>)
    /\ NoEntries("a")

\* C28: every device that has a run task with an active workflow process is in
\* the accepted key list.
C28_ActiveRunsAreListed ==
    \A t \in DOMAIN tasks :
        tasks[t].process # "NotRunning" => t[1] \in Range(OrEmpty(last_devices))

\* C29: the run map and the run history have the same keys; for each of them the
\* history entry is the run record of the registered task, and the cached state
\* of the key is the state of that record.
C29_RegistryConsistent ==
    /\ DOMAIN workflow_runs = DOMAIN workflow_history
    /\ \A k \in DOMAIN workflow_runs :
          /\ workflow_runs[k] \in DOMAIN tasks
          /\ workflow_history[k] = workflow_runs[k]
          /\ k \in DOMAIN device_states
          /\ device_states[k] = tasks[workflow_runs[k]].state

\* both devices have a registered run: that of a failed at its start, and that of
\* b is done and took the place of an earlier run of b
C29_Witness ==
    /\ DOMAIN workflow_runs = Devices
    /\ workflow_runs["a"] = <<"a", 1>>
    /\ tasks[workflow_runs["a"]].state = "failed"
    /\ tasks[workflow_runs["a"]].exit_code = None
    /\ tasks[workflow_runs["b"]].state = "done"
    /\ <<"b", 2>> \in DOMAIN tasks /\ workflow_runs["b"] = <<"b", 2>>

====
